---- MODULE Spec2Model ----
(***************************************************************************)
(* A model of the per-surface recording pipeline of prototype1:            *)
(*   capture.rs   Recorder::run (the timed loop)                           *)
(*   encode.rs    write_frame_to_ffmpeg, write_frame_with_retry            *)
(*   diff.rs      compare_with_previous_image                              *)
(*   activity.rs  ActivityMonitor (check_activity, is_blocked, flush)      *)
(*   main.rs      MyApp::update (Start / Stop, the broadcast channel)      *)
(*                                                                         *)
(* Five specifications share the definitions below:                        *)
(*   Spec          one Recorder::run, statement by statement               *)
(*   SpecActivity  an ActivityMonitor driven by check_activity and flush   *)
(*   SpecSched     the deadline arithmetic of the loop over a clock        *)
(*   SpecApp       MyApp::update and the Recorders it spawns, one step per *)
(*                 await point, with the broadcast channel between them    *)
(*   SpecRestart   MyApp::update and the files its Recorders name, over    *)
(*                 Start, Stop and Start again                             *)
(*                                                                         *)
(* Option<T> is a sequence of length 0 (None) or 1 (Some).  Strings that   *)
(* the code inspects are tuples of one-character strings.  Dissimilarity   *)
(* values are in thousandths.                                              *)
(***************************************************************************)
EXTENDS Integers, Sequences, FiniteSets, TLC

\* ------------------------------------------------------------------ bounds
\* ticks one Recorder::run may begin
MaxTicks == 3
\* largest pixel value of a modelled frame
MaxPix == 2
\* check_activity calls in SpecActivity
MaxCalls == 3
\* largest wall-clock reading in SpecActivity
MaxNow == 1
\* horizon of the monotonic clock in SpecSched
MaxTime == 14
\* Start clicks in SpecApp
MaxStarts == 1
\* write_all calls of one session that fail after writing a part of the bytes
MaxPartials == 1
\* restarts (a Stop, then a Start) in SpecRestart
MaxRestarts == 1
\* largest Local::now() reading, in whole seconds, in SpecRestart
MaxWall == 1

None == <<>>
Some(x) == <<x>>

Min(a, b) == IF a < b THEN a ELSE b
Abs(a) == IF a < 0 THEN -a ELSE a
IsPrefix(s, t) == Len(s) <= Len(t) /\ SubSeq(t, 1, Len(s)) = s

VARIABLES
  \* ---- Recorder::run (Spec)
  pc, stop_rx, is_allowed, image, previous_image, frame_counter, retries,
  ffmpeg_stdin, stdin_open, result, error,
  ticks, g_sent, g_fatal, g_attempts, g_delays, g_wret,
  g_prev_captured, g_run_len, g_run_gap, g_gap, g_fate, g_exit,
  g_wait_failed,
  \* ---- ActivityMonitor (Spec, SpecActivity)
  activity_monitor, hist, g_io_failed, flushes, last_op,
  \* ---- scheduling step (SpecSched)
  spc, clock, next_tick, tick_start, slept, prev_makeup, prev_short,
  reset_at, n_ticks,
  \* ---- MyApp and its Recorders (SpecApp)
  monitors, is_recording, stop_tx, status, starts, ch_tail, ch_senders,
  rx_next, tpc, g_observed, post_ticks, post_frames,
  \* ---- the sessions' file names (SpecRestart)
  wall, sessions

recVars == <<pc, stop_rx, is_allowed, image, previous_image, frame_counter,
             retries, ffmpeg_stdin, stdin_open, result, error, ticks, g_sent,
             g_fatal, g_attempts, g_delays, g_wret, g_prev_captured,
             g_run_len, g_run_gap, g_gap, g_fate, g_exit, g_wait_failed>>
amVars == <<activity_monitor>>
actVars == <<hist, g_io_failed, flushes, last_op>>
schedVars == <<spc, clock, next_tick, tick_start, slept, prev_makeup,
               prev_short, reset_at, n_ticks>>
restartVars == <<wall, sessions>>
appVars == <<monitors, is_recording, stop_tx, status, starts, ch_tail,
             ch_senders, rx_next, tpc, g_observed, post_ticks,
             post_frames, restartVars>>
vars == <<recVars, amVars, actVars, schedVars, appVars>>

\* ------------------------------------------------------------ diff.rs
\* A frame: its dimensions and its (uniform) luminance.
Frames == {[dim |-> 1, pix |-> p] : p \in 0..MaxPix} \cup {[dim |-> 2, pix |-> 0]}

\* image_compare::gray_similarity_histogram: an error when the dimensions
\* differ, else the Hellinger distance of the luminance histograms
compare_images_histogram(a, b) ==
  IF a.dim # b.dim THEN None ELSE Some(4 * Abs(a.pix - b.pix))

\* the MSSIM score of two frames of the same dimensions
compare_images_ssim(a, b) == 1000 - 4 * Abs(a.pix - b.pix)

\* Result<f64>: None is Err
compare_with_previous_image(prev, cur) ==
  IF prev = None THEN Some(0)
  ELSE LET h == compare_images_histogram(prev[1], cur)
       IN IF h = None THEN None
          ELSE Some((h[1] + (1000 - compare_images_ssim(prev[1], cur))) \div 2)

UnwrapOr_Default(r, d) == IF r = None THEN 0 ELSE r[1]

\* .unwrap_or(1.0)
UnwrapOr(r, d) == IF r = None THEN d ELSE r[1]

\* 0.006
Threshold == 6

ShouldWrite_AlwaysWrite(prev, avg) == prev = None \/ avg >= 0

\* let should_write = previous_image.is_none() || current_average >= 0.006
ShouldWrite(prev, avg) == prev = None \/ avg >= Threshold

\* ---------------------------------------------------------- encode.rs
MAX_RETRIES == 3

RetriesExhausted_OffByOne(r) == r > MAX_RETRIES

\* if retries >= MAX_RETRIES { return Err(..) }
RetriesExhausted(r) == r >= MAX_RETRIES

\* outcomes of one write_frame_to_ffmpeg call: Ok; Err with nothing written
\* (the PNG encoding failed, or write_all failed at once); Err after write_all
\* wrote a part of the bytes
WriteOutcomes == {"ok", "err", "partial"}

\* what one write_frame_to_ffmpeg call leaves on the encoder's stdin
write_frame_to_ffmpeg(stdin, img, out) ==
  CASE out = "ok" -> Append(stdin, [frame |-> img, complete |-> TRUE])
    [] out = "partial" -> Append(stdin, [frame |-> img, complete |-> FALSE])
    [] OTHER -> stdin

\* -------------------------------------------------------- activity.rs
LowerOf ==
  ("A" :> "a") @@ ("B" :> "b") @@ ("C" :> "c") @@ ("D" :> "d") @@ ("E" :> "e") @@
  ("F" :> "f") @@ ("G" :> "g") @@ ("H" :> "h") @@ ("I" :> "i") @@ ("J" :> "j") @@
  ("K" :> "k") @@ ("L" :> "l") @@ ("M" :> "m") @@ ("N" :> "n") @@ ("O" :> "o") @@
  ("P" :> "p") @@ ("Q" :> "q") @@ ("R" :> "r") @@ ("S" :> "s") @@ ("T" :> "t") @@
  ("U" :> "u") @@ ("V" :> "v") @@ ("W" :> "w") @@ ("X" :> "x") @@ ("Y" :> "y") @@
  ("Z" :> "z")

to_lowercase(s) ==
  [i \in DOMAIN s |-> IF s[i] \in DOMAIN LowerOf THEN LowerOf[s[i]] ELSE s[i]]

contains(s, sub) ==
  \E i \in 0..(Len(s) - Len(sub)) : SubSeq(s, i + 1, i + Len(sub)) = sub

blocked_apps ==
  { <<"s","p","o","t","i","f","y">>, <<"s","l","a","c","k">>,
    <<"l","i","n","e">>, <<"d","i","s","c","o","r","d">> }

blocked_titles ==
  { <<"p","r","i","v","a","t","e">>, <<"i","n","c","o","g","n","i","t","o">>,
    <<"s","e","c","r","e","t">> }

is_blocked(app_name, title) ==
  \/ \E b \in blocked_apps : contains(to_lowercase(app_name), b)
  \/ \E b \in blocked_titles : contains(to_lowercase(title), b)

\* foreground windows the query may report
WinCode == [app_name |-> <<"V","S","C","o","d","e">>, title |-> <<"m","a","i","n">>]
WinIncognito == [app_name |-> <<"V","S","C","o","d","e">>,
                 title |-> <<"I","n","c","o","g","n","i","t","o">>]
WinSlack == [app_name |-> <<"S","l","a","c","k">>, title |-> <<"m","a","i","n">>]

\* results of get_active_window() under SpecActivity: Err, or Ok of a
\* permitted window or of a window of the same application with a blocked
\* title
Queries == {None, Some(WinCode), Some(WinIncognito)}

\* the results the query gives under Spec: a permitted window or a window
\* of a blocked application (a failed query is SpecActivity's)
RecorderQueries == {Some(WinCode), Some(WinSlack)}

\* outcomes of one write_log: appended, or a failure to serialize, open or write
LogIO == {"ok", "err"}

ActivityMonitor_new == [current_log |-> None, file |-> <<>>]

\* the log file after write_log(log)
write_log(file, log, io) == IF io = "ok" THEN Append(file, log) ELSE file

CloseEndTime_Stale(log, now) == log.end_time

\* log.end_time = now, on the segment a change closes
CloseEndTime(log, now) == now

\* let changed = if let Some(current) = &self.current_log { .. } else { true }
Changed(cur, w, blocked) ==
  IF cur = None THEN TRUE
  ELSE \/ cur[1].app_name # w.app_name
       \/ cur[1].window_title # w.title
       \/ cur[1].is_captured # ~blocked

IsCaptured_Always(blocked) == TRUE

\* line 84: is_captured: !is_blocked
IsCaptured(blocked) == ~blocked

NextOpen_KeepOnError(cur, fresh, io) ==
  IF cur # None /\ io = "err" THEN cur ELSE Some(fresh)

\* lines 73-85: current_log.take(), write_log(&log) (which returns nothing),
\* then self.current_log = Some(ActivityLog { .. })
NextOpen(cur, fresh, io) == Some(fresh)

OnQueryError_ExtendSegment(am, now) ==
  [am |-> IF am.current_log = None THEN am
          ELSE [am EXCEPT !.current_log = Some([@[1] EXCEPT !.end_time = now])],
   ret |-> TRUE]

\* Err(_) => { return true; }: the monitor after it and the value returned
OnQueryError(am, now) == [am |-> am, ret |-> TRUE]

\* check_activity with the query's result q, Utc::now() = now and the
\* outcome io of the write_log it may make: the monitor after it and the
\* value returned
check_activity(am, q, now, io) ==
  IF q = None THEN OnQueryError(am, now)
  ELSE
    LET w == q[1]
        blocked == is_blocked(w.app_name, w.title)
        cur == am.current_log
        fresh == [start_time |-> now, end_time |-> now,
                  app_name |-> w.app_name, window_title |-> w.title,
                  is_captured |-> IsCaptured(blocked)]
    IN IF Changed(cur, w, blocked)
       THEN [am |-> [current_log |-> NextOpen(cur, fresh, io),
                     file |-> IF cur = None THEN am.file
                              ELSE write_log(am.file,
                                     [cur[1] EXCEPT !.end_time =
                                        CloseEndTime(cur[1], now)], io)],
             ret |-> ~blocked]
       ELSE [am |-> [am EXCEPT !.current_log =
                        Some([cur[1] EXCEPT !.end_time = now])],
             ret |-> ~blocked]

AfterFlush_KeepOpen(cur) == cur

\* if let Some(log) = self.current_log.take(): what take() leaves
AfterFlush(cur) == None

flush(am, io) ==
  IF am.current_log = None THEN am
  ELSE [current_log |-> AfterFlush(am.current_log),
        file |-> write_log(am.file, am.current_log[1], io)]

\* ====================================================== Recorder::run
\* pc is the statement Recorder::run is at:
\*   setup           lines 133-160    check_stop   line 164
\*   check_activity  line 170         capture      line 179
\*   diff            lines 182-193    write        line 195 (one attempt)
\*   retry_sleep     encode.rs 147    sched        lines 214-221
\*   flush, close, wait  lines 225-232             done  run has returned

\* the ways lines 133-157 can end
SetupOutcomes == {"ok", "monitor_not_found", "create_dir_failed",
                  "invalid_path", "ffmpeg_not_found", "spawn_failed",
                  "no_stdin"}

\* the anyhow messages of the session-fatal errors, a format argument
\* written as the name of the value it interpolates (capture.rs 134, 143,
\* 149, 157; encode.rs 87, 113, 144)
error_message(kind) ==
  CASE kind = "monitor_not_found" -> <<"Monitor ", "{monitor_id}", " not found">>
    [] kind = "create_dir_failed" ->
         <<"Failed to create output directory: ", "{output_dir}">>
    [] kind = "invalid_path" -> <<"Invalid path">>
    [] kind = "ffmpeg_not_found" -> <<"FFmpeg not found">>
    [] kind = "spawn_failed" -> <<"Failed to spawn ffmpeg">>
    [] kind = "no_stdin" -> <<"Failed to get ffmpeg stdin">>
    [] kind = "write_failed" -> <<"Failed to write frame to ffmpeg: ", "{e}">>

\* the message interpolates the value
Carries(msg, arg) == \E i \in DOMAIN msg : msg[i] = arg

InitRec ==
  /\ pc = "setup"
  /\ stop_rx = 0
  /\ is_allowed = TRUE
  /\ image = None
  /\ previous_image = None
  /\ frame_counter = 0
  /\ retries = 0
  /\ ffmpeg_stdin = <<>>
  /\ stdin_open = FALSE
  /\ result = "none"
  /\ error = "none"
  /\ ticks = 0
  /\ g_sent = FALSE
  /\ g_fatal = FALSE
  /\ g_attempts = 0
  /\ g_delays = 0
  /\ g_wret = "none"
  /\ g_prev_captured = None
  /\ g_run_len = 0
  /\ g_run_gap = FALSE
  /\ g_gap = FALSE
  /\ g_fate = "none"
  /\ g_exit = <<>>
  /\ g_wait_failed = FALSE

InitAm == activity_monitor = ActivityMonitor_new

\* lines 133-160: look the monitor up, create the directory, name the
\* files, start ffmpeg and take its stdin; each `?` returns Err
RSetup(out) ==
  /\ pc = "setup"
  /\ IF out = "ok"
       THEN /\ pc' = "check_stop"
            /\ stdin_open' = TRUE
            /\ UNCHANGED <<result, error>>
       ELSE /\ pc' = "done"
            /\ result' = "Err"
            /\ error' = out
            /\ UNCHANGED stdin_open
  /\ UNCHANGED <<stop_rx, is_allowed, image, previous_image, frame_counter,
                 retries, ffmpeg_stdin, ticks, g_sent, g_fatal, g_attempts,
                 g_delays, g_wret, g_prev_captured, g_run_len, g_run_gap,
                 g_gap, g_fate, g_exit, g_wait_failed>>
  /\ UNCHANGED <<amVars, actVars, schedVars, appVars>>

\* main.rs 79: tx.send(()) puts one message in this Recorder's receiver
RStopSend ==
  /\ ~g_sent
  /\ g_sent' = TRUE
  /\ stop_rx' = stop_rx + 1
  /\ UNCHANGED <<pc, is_allowed, image, previous_image, frame_counter,
                 retries, ffmpeg_stdin, stdin_open, result, error, ticks,
                 g_fatal, g_attempts, g_delays, g_wret, g_prev_captured,
                 g_run_len, g_run_gap, g_gap, g_fate, g_exit, g_wait_failed>>
  /\ UNCHANGED <<amVars, actVars, schedVars, appVars>>

\* line 164: if stop_rx.try_recv().is_ok() { break }
RCheckStop ==
  /\ pc = "check_stop"
  /\ IF stop_rx > 0
       THEN /\ stop_rx' = stop_rx - 1
            /\ pc' = "flush"
            /\ UNCHANGED ticks
       ELSE /\ ticks < MaxTicks
            /\ ticks' = ticks + 1
            /\ pc' = "check_activity"
            /\ UNCHANGED stop_rx
  /\ UNCHANGED <<is_allowed, image, previous_image, frame_counter, retries,
                 ffmpeg_stdin, stdin_open, result, error, g_sent, g_fatal,
                 g_attempts, g_delays, g_wret, g_prev_captured, g_run_len,
                 g_run_gap, g_gap, g_fate, g_exit, g_wait_failed>>
  /\ UNCHANGED <<amVars, actVars, schedVars, appVars>>

AfterGate_ContinueWhenBlocked(allowed) ==
  IF allowed THEN "capture" ELSE "check_stop"

\* lines 172-179 and 211-214: if !is_allowed { } else { capture .. }, then
\* the sleep logic
AfterGate(allowed) == IF allowed THEN "capture" ELSE "sched"

\* lines 170-177: let is_allowed = activity_monitor.check_activity();
\* Utc::now() reads the tick's number here
RCheckActivity(q, io) ==
  /\ pc = "check_activity"
  /\ LET r == check_activity(activity_monitor, q, ticks, io)
     IN /\ activity_monitor' = r.am
        /\ is_allowed' = r.ret
        /\ pc' = AfterGate(r.ret)
        /\ g_gap' = (g_gap \/ ~r.ret)
  /\ UNCHANGED <<stop_rx, image, previous_image, frame_counter, retries,
                 ffmpeg_stdin, stdin_open, result, error, ticks, g_sent,
                 g_fatal, g_attempts, g_delays, g_wret, g_prev_captured,
                 g_run_len, g_run_gap, g_fate, g_exit, g_wait_failed>>
  /\ UNCHANGED <<actVars, schedVars, appVars>>

AfterCaptureError_Break == "flush"

\* lines 207-214: Err(e) => { warn!(..) }, then the sleep logic
AfterCaptureError == "sched"

\* line 179: match monitor.capture_image().await; Err is logged (line 208)
RCapture(res) ==
  /\ pc = "capture"
  /\ IF res = None
       THEN /\ pc' = AfterCaptureError
            /\ g_gap' = TRUE
            /\ UNCHANGED <<image, g_prev_captured, g_run_len, g_run_gap, g_fate>>
       ELSE /\ pc' = "diff"
            /\ image' = res
            /\ g_prev_captured' = res
            /\ g_run_len' = IF g_prev_captured = res
                              THEN Min(g_run_len + 1, 2) ELSE 1
            /\ g_run_gap' = IF g_prev_captured = res
                              THEN (g_run_gap \/ g_gap) ELSE FALSE
            /\ g_gap' = FALSE
            /\ g_fate' = "pending"
  /\ UNCHANGED <<stop_rx, is_allowed, previous_image, frame_counter, retries,
                 ffmpeg_stdin, stdin_open, result, error, ticks, g_sent,
                 g_fatal, g_attempts, g_delays, g_wret, g_exit,
                 g_wait_failed>>
  /\ UNCHANGED <<amVars, actVars, schedVars, appVars>>

PrevAfterDrop_Update(prev, img) == img

\* lines 202-205: the else arm changes frame_counter only
PrevAfterDrop(prev, img) == prev

\* lines 182-193 and 202-205: the diff and the forward/drop decision
RDiff ==
  /\ pc = "diff"
  /\ LET current_average ==
           UnwrapOr(compare_with_previous_image(previous_image, image[1]), 1000)
     IN IF ShouldWrite(previous_image, current_average)
          THEN /\ pc' = "write"
               /\ retries' = 0
               /\ g_attempts' = 0
               /\ g_delays' = 0
               /\ g_wret' = "none"
               /\ g_fate' = "forwarded"
               /\ UNCHANGED <<previous_image, frame_counter>>
          ELSE /\ pc' = "sched"
               /\ previous_image' = PrevAfterDrop(previous_image, image)
               /\ frame_counter' = frame_counter + 1
               /\ g_fate' = "dropped"
               /\ UNCHANGED <<retries, g_attempts, g_delays, g_wret>>
  /\ UNCHANGED <<stop_rx, is_allowed, image, ffmpeg_stdin,
                 stdin_open, result, error, ticks, g_sent, g_fatal,
                 g_prev_captured, g_run_len, g_run_gap, g_gap, g_exit,
                 g_wait_failed>>
  /\ UNCHANGED <<amVars, actVars, schedVars, appVars>>

AfterFatalWrite_Continue == "sched"

\* line 197: break
AfterFatalWrite == "flush"

\* encode.rs 139-149 with capture.rs 195-201: one pass of the retry loop
RWrite(out) ==
  /\ pc = "write"
  /\ out = "partial" =>
       Cardinality({i \in DOMAIN ffmpeg_stdin : ~ffmpeg_stdin[i].complete}) < MaxPartials
  /\ ffmpeg_stdin' = write_frame_to_ffmpeg(ffmpeg_stdin, image[1], out)
  /\ g_attempts' = g_attempts + 1
  /\ IF out = "ok"
       THEN /\ g_wret' = "Ok"
            /\ previous_image' = image
            /\ frame_counter' = frame_counter + 1
            /\ g_fate' = "written"
            /\ pc' = "sched"
            /\ UNCHANGED <<retries, g_fatal>>
       ELSE /\ retries' = retries + 1
            /\ UNCHANGED <<previous_image, frame_counter, g_fate>>
            /\ IF RetriesExhausted(retries + 1)
                 THEN /\ g_wret' = "Err"
                      /\ g_fatal' = TRUE
                      /\ pc' = AfterFatalWrite
                 ELSE /\ pc' = "retry_sleep"
                      /\ UNCHANGED <<g_wret, g_fatal>>
  /\ UNCHANGED <<stop_rx, is_allowed, image, stdin_open, result, error, ticks,
                 g_sent, g_delays, g_prev_captured, g_run_len, g_run_gap, g_gap,
                 g_exit, g_wait_failed>>
  /\ UNCHANGED <<amVars, actVars, schedVars, appVars>>

\* encode.rs 147 then 138: sleep(RETRY_DELAY), then the loop's guard;
\* line 152 when the guard fails
RRetrySleep ==
  /\ pc = "retry_sleep"
  /\ g_delays' = g_delays + 1
  /\ IF retries < MAX_RETRIES
       THEN /\ pc' = "write"
            /\ UNCHANGED <<g_wret, g_fatal>>
       ELSE /\ g_wret' = "Err"
            /\ g_fatal' = TRUE
            /\ pc' = AfterFatalWrite
  /\ UNCHANGED <<stop_rx, is_allowed, image, previous_image, frame_counter,
                 retries, ffmpeg_stdin, stdin_open, result, error, ticks,
                 g_sent, g_attempts, g_prev_captured, g_run_len, g_run_gap,
                 g_gap, g_fate, g_exit, g_wait_failed>>
  /\ UNCHANGED <<amVars, actVars, schedVars, appVars>>

\* lines 214-221: advance the deadline and sleep (the arithmetic is
\* SpecSched's)
RSchedule ==
  /\ pc = "sched"
  /\ pc' = "check_stop"
  /\ UNCHANGED <<stop_rx, is_allowed, image, previous_image, frame_counter,
                 retries, ffmpeg_stdin, stdin_open, result, error, ticks,
                 g_sent, g_fatal, g_attempts, g_delays, g_wret,
                 g_prev_captured, g_run_len, g_run_gap, g_gap, g_fate, g_exit,
                 g_wait_failed>>
  /\ UNCHANGED <<amVars, actVars, schedVars, appVars>>

\* line 225: activity_monitor.flush()
RFlush(io) ==
  /\ pc = "flush"
  /\ activity_monitor' = flush(activity_monitor, io)
  /\ g_exit' = Append(g_exit, "flush")
  /\ pc' = "close"
  /\ UNCHANGED <<stop_rx, is_allowed, image, previous_image, frame_counter,
                 retries, ffmpeg_stdin, stdin_open, result, error, ticks,
                 g_sent, g_fatal, g_attempts, g_delays, g_wret,
                 g_prev_captured, g_run_len, g_run_gap, g_gap, g_fate,
                 g_wait_failed>>
  /\ UNCHANGED <<actVars, schedVars, appVars>>

\* line 228: drop(ffmpeg_stdin)
RCloseStdin ==
  /\ pc = "close"
  /\ stdin_open' = FALSE
  /\ g_exit' = Append(g_exit, "close")
  /\ pc' = "wait"
  /\ UNCHANGED <<stop_rx, is_allowed, image, previous_image, frame_counter,
                 retries, ffmpeg_stdin, result, error, ticks, g_sent, g_fatal,
                 g_attempts, g_delays, g_wret, g_prev_captured, g_run_len,
                 g_run_gap, g_gap, g_fate, g_wait_failed>>
  /\ UNCHANGED <<amVars, actVars, schedVars, appVars>>

RunResult_Reraise(wait_ok) == IF wait_ok THEN "Ok" ELSE "Err"

\* lines 229-234: both arms of the match log, then Ok(())
RunResult(wait_ok) == "Ok"

\* lines 229-234: ffmpeg_child.wait().await, then return
RWait(wait_ok) ==
  /\ pc = "wait"
  /\ g_wait_failed' = ~wait_ok
  /\ g_exit' = Append(g_exit, "wait")
  /\ result' = RunResult(wait_ok)
  /\ pc' = "done"
  /\ UNCHANGED <<stop_rx, is_allowed, image, previous_image, frame_counter,
                 retries, ffmpeg_stdin, stdin_open, error, ticks, g_sent,
                 g_fatal, g_attempts, g_delays, g_wret, g_prev_captured,
                 g_run_len, g_run_gap, g_gap, g_fate>>
  /\ UNCHANGED <<amVars, actVars, schedVars, appVars>>

\* ------------------------------------------------- the idle components
InitAct ==
  /\ hist = <<>>
  /\ g_io_failed = FALSE
  /\ flushes = 0
  /\ last_op = "none"

InitSched ==
  /\ spc = "top"
  /\ clock = 0
  /\ next_tick = 0
  /\ tick_start = 0
  /\ slept = FALSE
  /\ prev_makeup = FALSE
  /\ prev_short = FALSE
  /\ reset_at = 0
  /\ n_ticks = 0

\* the displays of the machine
Monitors == {"m1", "m2"}
\* what list_monitors() returns: the displays do not change while the
\* program runs, and Monitor::all() lists them
MonitorLists == {Monitors}
\* the Recorders that may be spawned: <<the Start click, the monitor>>
Tasks == (1..MaxStarts) \X Monitors

InitApp ==
  /\ monitors = Monitors
  /\ is_recording = FALSE
  /\ stop_tx = None
  /\ status = <<"Ready">>
  /\ starts = 0
  /\ ch_tail = [g \in 1..MaxStarts |-> 0]
  /\ ch_senders = [g \in 1..MaxStarts |-> 0]
  /\ rx_next = [t \in Tasks |-> 0]
  /\ tpc = [t \in Tasks |-> "idle"]
  /\ g_observed = [t \in Tasks |-> FALSE]
  /\ post_ticks = [t \in Tasks |-> 0]
  /\ post_frames = [t \in Tasks |-> 0]
  /\ wall = 0
  /\ sessions = {}

Init == InitRec /\ InitAm /\ InitAct /\ InitSched /\ InitApp

\* ------------------------------------------------------------- Spec
Next ==
  \/ \E out \in SetupOutcomes : RSetup(out)
  \/ RStopSend
  \/ RCheckStop
  \/ \E q \in RecorderQueries, io \in LogIO : RCheckActivity(q, io)
  \/ \E res \in {None} \cup {Some(f) : f \in Frames} : RCapture(res)
  \/ RDiff
  \/ \E out \in WriteOutcomes : RWrite(out)
  \/ RRetrySleep
  \/ RSchedule
  \/ \E io \in LogIO : RFlush(io)
  \/ RCloseStdin
  \/ \E wait_ok \in BOOLEAN : RWait(wait_ok)

Spec == Init /\ [][Next]_vars

\* ----------------------------------------------------- claims under Spec
CleanupPcs == {"flush", "close", "wait", "done"}

\* C1: when write_frame_with_retry exhausts its retries inside run, run
\* returns an error, not a success value, to its caller.
C1_FatalWriteReportsError ==
  (pc = "done" /\ g_fatal) => result = "Err"

\* C2: write_frame_with_retry makes at most 3 attempts for one frame; it
\* returns Ok after exactly k attempts when attempt k is the first to
\* succeed, Err after exactly 3 failed attempts, and sleeps only between two
\* attempts: k - 1 delays for k attempts, none after the last.
C2_RetryAttempts ==
  /\ g_attempts <= 3
  /\ pc = "write" => g_delays = g_attempts
  /\ pc = "retry_sleep" => g_delays = g_attempts - 1
  /\ g_wret = "Ok" =>
       /\ g_attempts \in 1..3
       /\ retries = g_attempts - 1
       /\ g_delays = g_attempts - 1
  /\ g_wret = "Err" =>
       /\ g_attempts = 3
       /\ retries = 3
       /\ g_delays = 2

\* two failed attempts, then the third succeeds
C2_Witness == g_wret = "Ok" /\ g_attempts = 3 /\ g_delays = 2

\* C3: a captured frame identical to the frame captured before it (the
\* second or a later frame of a run of identical frames) is never handed to
\* the encoder, whatever blocked ticks or capture failures lie between them.
C3_RepeatedFrameNotForwarded ==
  g_run_len >= 2 =>
    /\ g_fate \in {"pending", "dropped"}
    /\ pc \notin {"write", "retry_sleep"}

\* a repeated frame was dropped with a blocked tick or a failed capture
\* between it and the frame it repeats
C3_Witness == g_run_len >= 2 /\ g_fate = "dropped" /\ g_run_gap

\* C9: on every exit of the loop run flushes once, then closes the
\* encoder's stdin, then awaits the child, and returns the same result
\* whether or not the wait failed.
C9_ExitSequence ==
  /\ IsPrefix(g_exit, <<"flush", "close", "wait">>)
  /\ pc \notin CleanupPcs => g_exit = <<>>
  /\ (pc = "done" /\ error = "none") =>
       /\ g_exit = <<"flush", "close", "wait">>
       /\ activity_monitor.current_log = None
       /\ ~stdin_open
       /\ result = "Ok"

\* run returned after a fatal write failure and a failed wait
C9_Witness == pc = "done" /\ g_fatal /\ g_wait_failed /\ result = "Ok"

\* C10: after a fatal encoder-write failure the session makes no further
\* activity check, capture or write, and what the encoder's stdin and the
\* activity log already hold stays as it is (the flush may append).
C10_NothingAfterFatal ==
  [][g_fatal =>
       /\ ~(\E q \in RecorderQueries, io \in LogIO : RCheckActivity(q, io))
       /\ ~(\E res \in {None} \cup {Some(f) : f \in Frames} : RCapture(res))
       /\ ~(\E out \in WriteOutcomes : RWrite(out))
       /\ pc' \in CleanupPcs
       /\ ffmpeg_stdin' = ffmpeg_stdin
       /\ IsPrefix(activity_monitor.file, activity_monitor'.file)
       /\ <<previous_image, frame_counter>>' = <<previous_image, frame_counter>>
    ]_vars

\* a session that had written a frame and a segment failed fatally and ended
C10_Witness ==
  /\ g_fatal
  /\ pc = "done"
  /\ \E i \in DOMAIN ffmpeg_stdin : ffmpeg_stdin[i].complete
  /\ Len(activity_monitor.file) >= 2

\* C12: a tick the gate does not permit requests no capture and writes
\* nothing: the capture, the diff and the write are reached only on a
\* permitted tick; the blocked tick goes from the gate to the scheduling
\* step and from there to the next loop top, and previous_image,
\* frame_counter and the encoder's stdin are as before the tick.
C12_BlockedTickSkipsCapture ==
  /\ [](pc \in {"capture", "diff", "write", "retry_sleep"} => is_allowed)
  /\ [][/\ (pc = "check_activity" /\ pc' # pc /\ ~is_allowed') =>
              /\ pc' = "sched"
              /\ <<image, previous_image, frame_counter, ffmpeg_stdin>>' =
                   <<image, previous_image, frame_counter, ffmpeg_stdin>>
        /\ (pc = "sched" /\ pc' # pc) =>
              /\ pc' = "check_stop"
              /\ <<image, previous_image, frame_counter, ffmpeg_stdin>>' =
                   <<image, previous_image, frame_counter, ffmpeg_stdin>>
      ]_vars

\* a blocked tick, after a tick that kept a frame, has been scheduled
C12_Witness ==
  /\ pc = "check_stop"
  /\ ~is_allowed
  /\ previous_image # None
  /\ ticks >= 2

\* the complete frames on the encoder's stdin, in order
Written(stdin) ==
  LET w == SelectSeq(stdin, LAMBDA e : e.complete)
  IN [i \in DOMAIN w |-> w[i].frame]

\* C14: the frames written to the encoder are a subsequence of the captured
\* frames in capture order: stdin only grows, by a copy of the frame the
\* current tick captured, made during that tick, and a captured frame is
\* decided once and gets at most one complete copy; previous_image changes
\* only in the step that completes a copy, to the frame copied.
C14_WrittenInCaptureOrder ==
  [][/\ ffmpeg_stdin' # ffmpeg_stdin =>
          /\ pc = "write"
          /\ g_fate = "forwarded"
          /\ image = g_prev_captured
          /\ \E c \in BOOLEAN :
               /\ ffmpeg_stdin' =
                    Append(ffmpeg_stdin, [frame |-> image[1], complete |-> c])
               /\ c => g_fate' = "written"
     /\ (g_fate' = "forwarded" /\ g_fate # "forwarded") => g_fate = "pending"
     /\ (g_fate' = "pending" /\ g_fate # "pending") =>
          /\ pc = "capture"
          /\ image' # None
          /\ g_prev_captured' = image'
     /\ previous_image' # previous_image =>
          /\ previous_image' = image
          /\ Written(ffmpeg_stdin') = Append(Written(ffmpeg_stdin), image[1])
    ]_vars

\* three frames were captured and decided: one written, one dropped, one
\* written
C14_Witness ==
  /\ frame_counter = 3
  /\ Len(Written(ffmpeg_stdin)) = 2
  /\ g_fate = "written"

\* the index of the last complete copy on stdin before its last entry, 0
\* when there is none: every earlier call of write_frame_with_retry that
\* returned Ok ended with a complete copy, so the entries after this index
\* are the ones the call that has just returned Ok wrote
LastCompleteBefore(stdin) ==
  LET S == {i \in 1..(Len(stdin) - 1) : stdin[i].complete}
  IN IF S = {} THEN 0 ELSE CHOOSE i \in S : \A j \in S : j <= i

\* C22: when write_frame_with_retry has returned Ok for a frame, what the
\* call put on the encoder's stdin is exactly one complete copy of that
\* frame and no partial copy of it.
C22_OneCompleteCopyOnSuccess ==
  (pc = "sched" /\ g_wret = "Ok" /\ g_fate = "written") =>
    /\ Len(ffmpeg_stdin) > 0
    /\ ffmpeg_stdin[Len(ffmpeg_stdin)] =
         [frame |-> image[1], complete |-> TRUE]
    /\ LastCompleteBefore(ffmpeg_stdin) = Len(ffmpeg_stdin) - 1

\* C16: a failed capture does not end the session: the tick goes from the
\* capture to the scheduling step with previous_image, frame_counter and
\* the encoder's stdin unchanged and no result or fatal failure set, and
\* from the scheduling step to the next loop top.
C16_CaptureFailureSkipsTick ==
  [][/\ (pc = "capture" /\ pc' \notin {"capture", "diff"}) =>
          /\ pc' = "sched"
          /\ <<previous_image, frame_counter, ffmpeg_stdin>>' =
               <<previous_image, frame_counter, ffmpeg_stdin>>
          /\ result' = "none"
          /\ ~g_fatal'
     /\ (pc = "sched" /\ pc' # pc) => pc' = "check_stop"
    ]_vars

\* the tick after a kept frame failed to capture, and the next tick began
C16_Witness ==
  /\ pc = "check_activity"
  /\ is_allowed
  /\ g_gap
  /\ previous_image # None
  /\ ticks >= 3

\* C19: every session-fatal error of run, a failed setup's and the one
\* write_frame_with_retry returns when its retries are exhausted, carries
\* the surface id and the pipeline phase.
C19_FatalErrorsAttributed ==
  /\ (pc = "done" /\ error # "none") =>
       /\ Carries(error_message(error), "{monitor_id}")
       /\ Carries(error_message(error), "{phase}")
  /\ g_wret = "Err" =>
       /\ Carries(error_message("write_failed"), "{monitor_id}")
       /\ Carries(error_message("write_failed"), "{phase}")

\* the frame most recently forwarded: the last complete one on stdin
LastForwarded ==
  LET w == Written(ffmpeg_stdin)
  IN IF w = <<>> THEN None ELSE Some(w[Len(w)])

\* C20: a captured frame is forwarded exactly when there is no kept frame,
\* or the differ fails (the dimensions differ), or its distance to the kept
\* frame is at least 0.006 (6 thousandths); the kept frame is the frame
\* most recently forwarded, so a dropped frame is within 0.006 of that one.
C20_ForwardIffChanged ==
  /\ [](previous_image = LastForwarded)
  /\ [][(pc = "diff" /\ pc' # pc) =>
          LET d == compare_with_previous_image(previous_image, image[1])
              e == compare_with_previous_image(LastForwarded, image[1])
          IN /\ pc' \in {"write", "sched"}
             /\ pc' = "write" <=>
                  (previous_image = None \/ d = None \/ d[1] >= 6)
             /\ pc' = "sched" =>
                  (LastForwarded # None /\ e # None /\ e[1] < 6)
      ]_vars

\* after one frame written and one dropped, a frame of other dimensions is
\* forwarded because the differ failed
C20_Witness ==
  /\ pc = "write"
  /\ frame_counter = 2
  /\ Len(Written(ffmpeg_stdin)) = 1
  /\ previous_image # None
  /\ compare_with_previous_image(previous_image, image[1]) = None

\* ======================================================= SpecActivity
\* An ActivityMonitor under any sequence of check_activity and flush calls.
\* hist lists the check_activity calls: the query's result, Utc::now() and
\* the value returned.

\* the call closes a segment, and so makes a write_log
Closes(am, q) ==
  /\ q # None
  /\ am.current_log # None
  /\ Changed(am.current_log, q[1], is_blocked(q[1].app_name, q[1].title))

\* activity.rs 47-94
ACheckActivity(q, now, io) ==
  /\ Len(hist) < MaxCalls
  /\ activity_monitor' = check_activity(activity_monitor, q, now, io).am
  \* a write_log was made and it failed
  /\ g_io_failed' = (g_io_failed \/ (io = "err" /\ Closes(activity_monitor, q)))
  /\ hist' = Append(hist, [q |-> q, now |-> now,
                           ret |-> check_activity(activity_monitor, q, now, io).ret])
  /\ last_op' = "check"
  /\ UNCHANGED flushes
  /\ UNCHANGED <<recVars, schedVars, appVars>>

\* activity.rs 144-148
AFlush(io) ==
  /\ flushes < 2
  /\ activity_monitor' = flush(activity_monitor, io)
  /\ g_io_failed' = (g_io_failed \/ (io = "err" /\ activity_monitor.current_log # None))
  /\ flushes' = flushes + 1
  /\ last_op' = IF last_op \in {"flush", "flush_again"}
                  THEN "flush_again" ELSE "flush"
  /\ UNCHANGED hist
  /\ UNCHANGED <<recVars, schedVars, appVars>>

NextActivity ==
  \/ \E q \in Queries, now \in 0..MaxNow, io \in LogIO : ACheckActivity(q, now, io)
  \/ \E io \in LogIO : AFlush(io)

SpecActivity == Init /\ [][NextActivity]_vars

\* the (app, title, captured) triple of call i
Triple(h, i) ==
  LET w == h[i].q[1]
  IN <<w.app_name, w.title, ~is_blocked(w.app_name, w.title)>>

\* the calls that begin a maximal run of equal triples, and where it ends
RunStarts(h) == {i \in 1..Len(h) : i = 1 \/ Triple(h, i) # Triple(h, i - 1)}
RunEnd(h, i) ==
  CHOOSE j \in i..Len(h) :
    /\ j = Len(h) \/ Triple(h, j + 1) # Triple(h, j)
    /\ \A k \in i..(j - 1) : Triple(h, k + 1) = Triple(h, k)
NthRunStart(h, n) ==
  CHOOSE i \in RunStarts(h) : Cardinality({j \in RunStarts(h) : j < i}) = n - 1

RunSegment(h, i, end) ==
  [start_time |-> h[i].now, end_time |-> end,
   app_name |-> Triple(h, i)[1], window_title |-> Triple(h, i)[2],
   is_captured |-> Triple(h, i)[3]]

\* one segment per run, ending at the run's last tick
SegmentsEndingAtLastTick(h) ==
  [n \in 1..Cardinality(RunStarts(h)) |->
     LET i == NthRunStart(h, n)
     IN RunSegment(h, i, h[RunEnd(h, i)].now)]

\* one segment per run, ending at the tick that saw the change (the next
\* run's first tick), the last one at its run's last tick
SegmentsEndingAtChange(h) ==
  [n \in 1..Cardinality(RunStarts(h)) |->
     LET i == NthRunStart(h, n)
         j == RunEnd(h, i)
     IN RunSegment(h, i, IF j = Len(h) THEN h[j].now ELSE h[j + 1].now)]

\* check_activity calls whose queries all succeeded, then one flush, every
\* append having succeeded
ChecksThenFlush ==
  /\ flushes = 1
  /\ last_op = "flush"
  /\ hist # <<>>
  /\ \A i \in DOMAIN hist : hist[i].q # None
  /\ ~g_io_failed

\* C4 as stated: after the calls and the flush the log holds one segment
\* per maximal run of equal (app, title, captured) triples, in order, from
\* the run's first tick to the run's last tick, is_captured = ~blocked.
C4_SegmentsSpanTheirRuns ==
  ChecksThenFlush => activity_monitor.file = SegmentsEndingAtLastTick(hist)

\* C4 amended: the same, but a segment closed by a change ends at the tick
\* that observed the change (the first tick of the next run); only the
\* last segment, closed by flush, ends at its run's last tick.
C4_SegmentsEndAtChange ==
  ChecksThenFlush => activity_monitor.file = SegmentsEndingAtChange(hist)

\* a run of two ticks, then a change seen at a later time, then the flush
C4_Witness ==
  /\ ChecksThenFlush
  /\ Len(hist) >= 3
  /\ Len(activity_monitor.file) = 2
  /\ Triple(hist, 1) = Triple(hist, 2)
  /\ hist[3].now # hist[2].now
  /\ activity_monitor.file[1].is_captured # activity_monitor.file[2].is_captured

\* the check_activity call this step makes, if it is one
CheckStep == hist' # hist
LastCall == hist'[Len(hist')]

C13_EndNotBeforeStart ==
  /\ activity_monitor.current_log # None =>
       activity_monitor.current_log[1].end_time >=
         activity_monitor.current_log[1].start_time
  /\ \A i \in DOMAIN activity_monitor.file :
       activity_monitor.file[i].end_time >= activity_monitor.file[i].start_time

\* C17: a write_log that fails while check_activity closes a segment
\* changes nothing else: the call returns the value and leaves the open
\* segment it would have with a successful write, the log file is as it
\* was before the call (the closed segment is not kept for a later
\* attempt), and further calls are served.
C17_FailedLogWriteIsNotFatal ==
  [][CheckStep =>
       LET ok == check_activity(activity_monitor, LastCall.q, LastCall.now, "ok")
       IN /\ LastCall.ret = ok.ret
          /\ activity_monitor'.current_log = ok.am.current_log
          /\ \/ activity_monitor'.file = ok.am.file
             \/ /\ g_io_failed'
                /\ activity_monitor'.file = activity_monitor.file
    ]_vars

\* the close of the first segment failed to reach the log; the second
\* segment was opened and then extended by a further call
C17_Witness ==
  /\ g_io_failed
  /\ flushes = 0
  /\ Len(hist) = 3
  /\ \A i \in DOMAIN hist : hist[i].q # None
  /\ activity_monitor.file = <<>>
  /\ activity_monitor.current_log # None
  /\ activity_monitor.current_log[1].start_time = hist[2].now
  /\ Triple(hist, 1) # Triple(hist, 2)
  /\ Triple(hist, 2) = Triple(hist, 3)

\* the flush call this step makes, if it is one
FlushStep == flushes' # flushes

\* C18: a flush with a segment open appends that segment once (not at all
\* when the write fails) and leaves no segment open; a flush with none
\* open, and so any flush that follows a flush with no check_activity
\* between them, appends nothing and changes nothing.
C18_FlushIdempotent ==
  [][FlushStep =>
       /\ activity_monitor'.current_log = None
       /\ IF activity_monitor.current_log # None
            THEN \/ activity_monitor'.file =
                      Append(activity_monitor.file, activity_monitor.current_log[1])
                 \/ /\ g_io_failed'
                    /\ activity_monitor'.file = activity_monitor.file
            ELSE activity_monitor' = activity_monitor
       /\ last_op \in {"flush", "flush_again"} =>
            activity_monitor' = activity_monitor
    ]_vars

\* one call opened a segment, the flush appended it, and a second flush
\* followed at once
C18_Witness ==
  /\ last_op = "flush_again"
  /\ ~g_io_failed
  /\ Len(hist) = 1
  /\ hist[1].q # None
  /\ Len(activity_monitor.file) = 1
  /\ activity_monitor.current_log = None

\* is_captured is the negation of is_blocked of the segment's own window
CapturedAsOpened(log) ==
  log.is_captured = ~is_blocked(log.app_name, log.window_title)

\* C21: every segment, open or in the log, has is_captured equal to the
\* negation of is_blocked(app, title); no later call changes it: the open
\* segment keeps it while it stays open, and the log entry a close or a
\* flush appends has the value the segment had while open; a
\* check_activity whose query succeeded returns the is_captured of the
\* segment open after it.
C21_IsCapturedFixed ==
  /\ [](/\ activity_monitor.current_log # None =>
             CapturedAsOpened(activity_monitor.current_log[1])
        /\ \A i \in DOMAIN activity_monitor.file :
             CapturedAsOpened(activity_monitor.file[i]))
  /\ [][/\ IsPrefix(activity_monitor.file, activity_monitor'.file)
        /\ Len(activity_monitor'.file) <= Len(activity_monitor.file) + 1
        /\ Len(activity_monitor'.file) > Len(activity_monitor.file) =>
             /\ activity_monitor.current_log # None
             /\ [activity_monitor'.file[Len(activity_monitor'.file)]
                   EXCEPT !.end_time = 0] =
                [activity_monitor.current_log[1] EXCEPT !.end_time = 0]
        /\ (CheckStep /\ ~Closes(activity_monitor, LastCall.q)
              /\ activity_monitor.current_log # None) =>
             activity_monitor'.current_log[1].is_captured =
               activity_monitor.current_log[1].is_captured
        /\ (CheckStep /\ LastCall.q # None) =>
             /\ activity_monitor'.current_log # None
             /\ LastCall.ret = activity_monitor'.current_log[1].is_captured
      ]_vars

\* a permitted segment was closed into the log by a blocked window, whose
\* segment a further call extended; the calls returned true, false, false
C21_Witness ==
  /\ last_op = "check"
  /\ Len(hist) = 3
  /\ \A i \in DOMAIN hist : hist[i].q # None
  /\ <<hist[1].ret, hist[2].ret, hist[3].ret>> = <<TRUE, FALSE, FALSE>>
  /\ Len(activity_monitor.file) = 1
  /\ activity_monitor.file[1].is_captured
  /\ ~activity_monitor.current_log[1].is_captured
  /\ activity_monitor.current_log[1].end_time #
       activity_monitor.current_log[1].start_time

\* ========================================================== SpecSched
\* The deadline arithmetic of the loop (capture.rs 159-160, 213-221) over a
\* monotonic clock read by Instant::now().  One unit is a third of the
\* interval.  spc: top (line 162), work (lines 164-211), sched (line 214),
\* sleep (line 217).

\* Duration::from_secs_f64(1.0 / self.fps), in units
interval == 3

\* line 160 and the first pass of line 162: next_tick = Instant::now()
SchedTickBegin ==
  /\ spc = "top"
  /\ clock + interval <= MaxTime
  /\ spc' = "work"
  /\ n_ticks' = Min(n_ticks + 1, 2)
  /\ tick_start' = clock
  /\ UNCHANGED <<clock, next_tick, slept, prev_makeup, prev_short, reset_at>>
  /\ UNCHANGED <<recVars, amVars, actVars, appVars>>

\* lines 164-211: the tick's processing takes d units
SchedWork(d) ==
  /\ spc = "work"
  /\ clock + d <= MaxTime
  /\ clock' = clock + d
  /\ spc' = "sched"
  /\ UNCHANGED <<next_tick, tick_start, slept, prev_makeup, prev_short,
                 reset_at, n_ticks>>
  /\ UNCHANGED <<recVars, amVars, actVars, appVars>>

BehindDeadline_NoReset(deadline, now) == deadline

\* line 220: next_tick = now
BehindDeadline(deadline, now) == now

\* lines 214-221
SchedSchedule ==
  /\ spc = "sched"
  /\ LET deadline == next_tick + interval
         now == clock
     IN IF deadline > now
          THEN /\ next_tick' = deadline
               /\ spc' = "sleep"
               /\ slept' = TRUE
               /\ UNCHANGED reset_at
          ELSE /\ next_tick' = BehindDeadline(deadline, now)
               /\ spc' = "top"
               /\ slept' = FALSE
               /\ reset_at' = now
  \* the tick that ends here: did it start without a sleep, and did its
  \* processing take less than an interval
  /\ prev_makeup' = ~slept
  /\ prev_short' = (clock - tick_start < interval)
  /\ UNCHANGED <<clock, tick_start, n_ticks>>
  /\ UNCHANGED <<recVars, amVars, actVars, appVars>>

\* line 217: tokio::time::sleep(next_tick - now) returns at the deadline or
\* late units after it
SchedSleep(late) ==
  /\ spc = "sleep"
  /\ next_tick + late <= MaxTime
  /\ clock' = next_tick + late
  /\ spc' = "top"
  /\ UNCHANGED <<next_tick, tick_start, slept, prev_makeup, prev_short,
                 reset_at, n_ticks>>
  /\ UNCHANGED <<recVars, amVars, actVars, appVars>>

NextSched ==
  \/ SchedTickBegin
  \/ \E d \in 0..MaxTime : SchedWork(d)
  \/ SchedSchedule
  \/ \E late \in 0..1 : SchedSleep(late)

SpecSched == Init /\ [][NextSched]_vars

\* C5: a tick whose processing overran its deadline is followed by a tick
\* that starts without a sleep, from a deadline reset to now; unless that
\* make-up tick itself takes an interval or more, the tick after it is
\* preceded by a sleep and starts no earlier than one interval after the
\* reset.
C5_OneMakeUpTick ==
  /\ (spc = "top" /\ n_ticks >= 1 /\ ~slept) => (next_tick = reset_at /\ clock = reset_at)
  /\ (spc = "work" /\ n_ticks >= 2 /\ prev_makeup /\ prev_short) =>
       /\ slept
       /\ tick_start >= reset_at + interval

\* a tick overran by more than two intervals, the make-up tick was short,
\* and the tick after it has started
C5_Witness ==
  /\ spc = "work"
  /\ n_ticks >= 2
  /\ prev_makeup
  /\ prev_short
  /\ reset_at >= 2 * interval + 1
  /\ slept

\* ============================================================ SpecApp
\* MyApp::update (main.rs 69-118) and the Recorders it spawns.  Channel g
\* is the broadcast channel the g-th Start creates: ch_tail[g] counts the
\* values sent on it, ch_senders[g] its live Sender handles, rx_next[t] the
\* position Recorder t's Receiver reads next.  A Recorder takes one step per
\* await point; tpc[t] is the await it is at (setup, capture, write, wait),
\* check_stop the sleep of lines 214-221 (if any) and the top of the loop
\* after it, done when run has returned.  The gate's answer, the capture's
\* result, the diff's decision and the write's result are chosen freely.

\* broadcast::channel(1)
capacity == 1

Gen(t) == t[1]

RxCursor_Shared(t) ==
  LET all == {rx_next[u] : u \in {v \in Tasks : Gen(v) = Gen(t)}}
  IN CHOOSE n \in all : \A k \in all : k <= n

\* the position t's own Receiver reads next (tx.subscribe(), main.rs 104)
RxCursor(t) == rx_next[t]

\* stop_rx.try_recv()
try_recv(t) ==
  LET g == Gen(t)
  IN IF RxCursor(t) < ch_tail[g]
       THEN IF ch_tail[g] - RxCursor(t) > capacity THEN "Lagged" ELSE "Ok"
       ELSE IF ch_senders[g] = 0 THEN "Closed" ELSE "Empty"

StopObserved_OnlyWhenClosed(t) == try_recv(t) = "Closed"

\* capture.rs 164: stop_rx.try_recv().is_ok()
StopObserved(t) == try_recv(t) = "Ok"

LoopTop_SkipCheck == "capture"

\* capture.rs 162: the next pass of the loop begins with the stop check
LoopTop == "check_stop"

\* the signal of t's channel has been sent
Fired(t) == ch_tail[Gen(t)] >= 1

\* a Receiver lives until its Recorder's run returns
LiveReceivers(g) == {t \in Tasks : Gen(t) = g /\ tpc[t] \notin {"idle", "done"}}

\* main.rs 69-71: Refresh Monitors
AppRefresh(ms) ==
  /\ monitors' = ms
  /\ UNCHANGED <<is_recording, stop_tx, status, starts, ch_tail, ch_senders,
                 rx_next, tpc, g_observed, post_ticks, post_frames>>
  /\ UNCHANGED <<recVars, amVars, actVars, schedVars, restartVars>>

\* main.rs 86-118: Start Recording
AppStart ==
  /\ ~is_recording
  /\ monitors # {}
  /\ starts < MaxStarts
  /\ LET g == starts + 1
     IN /\ starts' = g
        /\ stop_tx' = Some(g)
        /\ ch_senders' = [ch_senders EXCEPT ![g] = 1]
        /\ tpc' = [t \in Tasks |->
                     IF Gen(t) = g /\ t[2] \in monitors THEN "setup" ELSE tpc[t]]
  /\ is_recording' = TRUE
  /\ status' = <<"Recording", Cardinality(monitors)>>
  /\ UNCHANGED <<monitors, ch_tail, rx_next, g_observed, post_ticks,
                 post_frames>>
  /\ UNCHANGED <<recVars, amVars, actVars, schedVars, restartVars>>

\* main.rs 75-84: Stop Recording; send fails when no Receiver is left
AppStop ==
  /\ is_recording
  /\ IF stop_tx # None
       THEN LET g == stop_tx[1]
            IN /\ ch_tail' = [ch_tail EXCEPT ![g] =
                                IF LiveReceivers(g) # {} THEN @ + 1 ELSE @]
               /\ ch_senders' = [ch_senders EXCEPT ![g] = 0]
       ELSE UNCHANGED <<ch_tail, ch_senders>>
  /\ is_recording' = FALSE
  /\ stop_tx' = None
  /\ status' = <<"Stopped">>
  /\ UNCHANGED <<monitors, starts, rx_next, tpc, g_observed,
                 post_ticks, post_frames>>
  /\ UNCHANGED <<recVars, amVars, actVars, schedVars, restartVars>>

\* capture.rs 133-160
TSetup(t, ok) ==
  /\ tpc[t] = "setup"
  /\ tpc' = [tpc EXCEPT ![t] = IF ok THEN LoopTop ELSE "done"]
  /\ UNCHANGED <<monitors, is_recording, stop_tx, status, starts, ch_tail,
                 ch_senders, rx_next, g_observed, post_ticks, post_frames>>
  /\ UNCHANGED <<recVars, amVars, actVars, schedVars, restartVars>>

\* capture.rs 162-179 (and 214-228): the sleep before this pass returns;
\* the stop check; on a signal the flush and the drop of stdin, up to the
\* wait; else the gate, up to the capture or, when blocked, the scheduling
\* step and the sleep
TLoopTop(t, allowed) ==
  /\ tpc[t] = "check_stop"
  /\ IF StopObserved(t)
       THEN /\ rx_next' = [rx_next EXCEPT ![t] = @ + 1]
            /\ g_observed' = [g_observed EXCEPT ![t] = TRUE]
            /\ tpc' = [tpc EXCEPT ![t] = "wait"]
            /\ UNCHANGED post_ticks
       ELSE /\ post_ticks' = [post_ticks EXCEPT ![t] =
                                IF Fired(t) THEN Min(@ + 1, 2) ELSE @]
            /\ tpc' = [tpc EXCEPT ![t] =
                         IF allowed THEN "capture" ELSE LoopTop]
            /\ UNCHANGED <<rx_next, g_observed>>
  /\ UNCHANGED <<monitors, is_recording, stop_tx, status, starts, ch_tail,
                 ch_senders, post_frames>>
  /\ UNCHANGED <<recVars, amVars, actVars, schedVars, restartVars>>

\* capture.rs 179-193, 202-221: the capture returns; a failure or a drop
\* goes to the scheduling step, a forward to the write
TCapture(t, res) ==
  /\ tpc[t] = "capture"
  /\ tpc' = [tpc EXCEPT ![t] = IF res = "forward" THEN "write"
                                ELSE LoopTop]
  /\ UNCHANGED <<monitors, is_recording, stop_tx, status, starts, ch_tail,
                 ch_senders, rx_next, g_observed, post_ticks,
                 post_frames>>
  /\ UNCHANGED <<recVars, amVars, actVars, schedVars, restartVars>>

\* capture.rs 195-201, 214-228: write_frame_with_retry returns
TWrite(t, ok) ==
  /\ tpc[t] = "write"
  /\ IF ok
       THEN /\ post_frames' = [post_frames EXCEPT ![t] =
                                 IF Fired(t) THEN Min(@ + 1, 2) ELSE @]
            /\ tpc' = [tpc EXCEPT ![t] = LoopTop]
       ELSE /\ tpc' = [tpc EXCEPT ![t] = "wait"]
            /\ UNCHANGED post_frames
  /\ UNCHANGED <<monitors, is_recording, stop_tx, status, starts, ch_tail,
                 ch_senders, rx_next, g_observed, post_ticks>>
  /\ UNCHANGED <<recVars, amVars, actVars, schedVars, restartVars>>

\* capture.rs 229-234: ffmpeg_child.wait() returns, run returns Ok(())
TWait(t, wait_ok) ==
  /\ tpc[t] = "wait"
  /\ tpc' = [tpc EXCEPT ![t] = "done"]
  /\ UNCHANGED <<monitors, is_recording, stop_tx, status, starts, ch_tail,
                 ch_senders, rx_next, g_observed, post_ticks, post_frames>>
  /\ UNCHANGED <<recVars, amVars, actVars, schedVars, restartVars>>

\* the steps of Recorder t
TaskStep(t) ==
  \/ \E ok \in BOOLEAN : TSetup(t, ok)
  \/ \E allowed \in BOOLEAN : TLoopTop(t, allowed)
  \/ \E res \in {"err", "drop", "forward"} : TCapture(t, res)
  \/ \E ok \in BOOLEAN : TWrite(t, ok)
  \/ \E wait_ok \in BOOLEAN : TWait(t, wait_ok)

NextApp ==
  \/ \E ms \in MonitorLists : AppRefresh(ms)
  \/ AppStart
  \/ AppStop
  \/ \E t \in Tasks : TaskStep(t)

SpecApp == Init /\ [][NextApp]_vars

\* the tokio runtime polls every spawned task that can make progress; every
\* await of a Recorder eventually returns
FairSpecApp == SpecApp /\ \A t \in Tasks : WF_vars(TaskStep(t))

\* C6: one firing of the signal is observed by every Recorder on its own:
\* while a live Recorder has not consumed the firing, its try_recv succeeds,
\* whichever other Recorders have consumed it.
C6_FanOut ==
  \A t \in Tasks :
    (tpc[t] \notin {"idle", "done"} /\ Fired(t) /\ ~g_observed[t])
      => try_recv(t) = "Ok"

\* one Recorder has consumed the firing and another one still can
C6_Witness ==
  \E t, u \in Tasks :
    /\ t # u
    /\ Gen(t) = Gen(u)
    /\ g_observed[t]
    /\ tpc[u] = "check_stop"
    /\ ~g_observed[u]
    /\ try_recv(u) = "Ok"

\* C7: once the signal has fired, every spawned Recorder of that channel,
\* one still in its setup included, eventually returns, and a Recorder that
\* has returned never runs again.
C7_EventuallyStopped ==
  /\ \A t \in Tasks : (Fired(t) /\ tpc[t] # "idle") ~> (tpc[t] = "done")
  /\ [][\A t \in Tasks : tpc[t] = "done" => tpc'[t] = "done"]_vars

\* one Recorder observed the firing and returned while another, signalled
\* before its first tick, is still in its setup
C7_Witness ==
  \E t, u \in Tasks :
    /\ Gen(t) = Gen(u)
    /\ tpc[t] = "done"
    /\ g_observed[t]
    /\ tpc[u] = "setup"
    /\ Fired(u)

\* C8: a Recorder leaves its loop for the cancellation only at the stop
\* check: a capture or write in flight when the signal fires returns
\* as it would have; after the firing the Recorder begins no tick, and
\* forwards at most one frame (that of the tick in flight).
C8_CooperativeCancel ==
  /\ [](\A t \in Tasks : post_ticks[t] = 0 /\ post_frames[t] <= 1)
  /\ [][\A t \in Tasks :
          /\ (g_observed'[t] /\ ~g_observed[t]) => tpc[t] = "check_stop"
          /\ (tpc'[t] = "wait" /\ tpc[t] # "wait") =>
               \/ tpc[t] = "check_stop" /\ g_observed'[t]
               \/ tpc[t] = "write" /\ g_observed'[t] = g_observed[t]
          /\ (tpc[t] \in {"capture", "write"} /\ tpc'[t] # tpc[t]) =>
               (TaskStep(t) /\ ch_tail' = ch_tail)
       ]_vars

\* a Recorder forwarded the frame of the tick in flight after the firing,
\* then observed the signal
C8_Witness ==
  \E t \in Tasks : post_frames[t] = 1 /\ g_observed[t] /\ tpc[t] = "done"

\* ======================================================== SpecRestart
\* MyApp::update over Start, Stop and Start again, and the files each
\* Recorder::run names.  sessions holds one record per spawned Recorder:
\* the Start that spawned it (gen), its monitor, where its run is (setup:
\* before line 146; live: the files are named and in use; done: run has
\* returned) and the timestamp of its file names.  wall is Local::now() in
\* whole seconds, the resolution of "%Y-%m-%d_%H-%M-%S".

\* main.rs 90-94: every Start passes the same directory
output_dir == "~/.work_recorder"

\* capture.rs 147-148: format!("monitor_{}_{}.mp4", monitor_id, timestamp)
video_path(s) ==
  <<output_dir, <<"monitor_", s.monitor_id, "_", s.timestamp[1], ".mp4">>>>

\* capture.rs 152-153: format!("monitor_{}_{}.jsonl", monitor_id, timestamp)
log_path(s) ==
  <<output_dir, <<"monitor_", s.monitor_id, "_", s.timestamp[1], ".jsonl">>>>

\* the Stop that sends on a session's channel is the one that follows its
\* Start: stop_tx holds that channel's Sender from the Start to that Stop
Signalled(s) == stop_tx # Some(s.gen)

\* main.rs 86-118: Start Recording spawns one Recorder per monitor
NStart ==
  /\ ~is_recording
  /\ monitors # {}
  /\ starts < MaxRestarts + 1
  /\ starts' = starts + 1
  /\ stop_tx' = Some(starts + 1)
  /\ sessions' = sessions \cup
                   {[gen |-> starts + 1, monitor_id |-> m, st |-> "setup",
                     timestamp |-> None] : m \in monitors}
  /\ is_recording' = TRUE
  /\ status' = <<"Recording", Cardinality(monitors)>>
  /\ UNCHANGED <<monitors, ch_tail, ch_senders, rx_next, tpc, g_observed,
                 post_ticks, post_frames, wall>>
  /\ UNCHANGED <<recVars, amVars, actVars, schedVars>>

\* main.rs 75-84: Stop Recording
NStop ==
  /\ is_recording
  /\ is_recording' = FALSE
  /\ stop_tx' = None
  /\ status' = <<"Stopped">>
  /\ UNCHANGED <<monitors, starts, ch_tail, ch_senders, rx_next, tpc,
                 g_observed, post_ticks, post_frames, wall, sessions>>
  /\ UNCHANGED <<recVars, amVars, actVars, schedVars>>

\* capture.rs 133-157: the setup fails before or after the files are named
\* and run returns, or it names them with Local::now() (line 146) and the
\* encoder starts on the video file
NSetup(s, ok) ==
  /\ s \in sessions
  /\ s.st = "setup"
  /\ sessions' = (sessions \ {s}) \cup
                   {IF ok THEN [s EXCEPT !.st = "live", !.timestamp = Some(wall)]
                          ELSE [s EXCEPT !.st = "done"]}
  /\ UNCHANGED <<monitors, is_recording, stop_tx, status, starts, ch_tail,
                 ch_senders, rx_next, tpc, g_observed, post_ticks,
                 post_frames, wall>>
  /\ UNCHANGED <<recVars, amVars, actVars, schedVars>>

\* capture.rs 162-234: run leaves the loop on the signal (line 164) or on a
\* fatal write failure (line 197), flushes the log and returns; its paths
\* go out of scope
NFinish(s, fatal) ==
  /\ s \in sessions
  /\ s.st = "live"
  /\ fatal \/ Signalled(s)
  /\ sessions' = (sessions \ {s}) \cup
                   {[s EXCEPT !.st = "done", !.timestamp = None]}
  /\ UNCHANGED <<monitors, is_recording, stop_tx, status, starts, ch_tail,
                 ch_senders, rx_next, tpc, g_observed, post_ticks,
                 post_frames, wall>>
  /\ UNCHANGED <<recVars, amVars, actVars, schedVars>>

\* a second of wall-clock time passes
NClock ==
  /\ wall < MaxWall
  /\ wall' = wall + 1
  /\ UNCHANGED <<monitors, is_recording, stop_tx, status, starts, ch_tail,
                 ch_senders, rx_next, tpc, g_observed, post_ticks,
                 post_frames, sessions>>
  /\ UNCHANGED <<recVars, amVars, actVars, schedVars>>

NextRestart ==
  \/ NStart
  \/ NStop
  \/ \E s \in sessions, ok \in BOOLEAN : NSetup(s, ok)
  \/ \E s \in sessions, fatal \in BOOLEAN : NFinish(s, fatal)
  \/ NClock

SpecRestart == Init /\ [][NextRestart]_vars

\* C15: no two sessions that are live at the same time, one still
\* finishing after Stop and one begun by the next Start included, use the
\* same video path or the same activity-log path.
C15_RestartUsesNewFiles ==
  \A s, t \in sessions :
    (s # t /\ s.st = "live" /\ t.st = "live") =>
      /\ video_path(s) # video_path(t)
      /\ log_path(s) # log_path(t)

\* C23: a Recorder spawned by a later Start for a surface is never in its
\* loop while a Recorder spawned by an earlier Start for the same surface
\* is still in its loop.
C23_OneLoopPerSurface ==
  \A s, t \in sessions :
    (s.monitor_id = t.monitor_id /\ s.gen < t.gen /\ s.st = "live") =>
      t.st # "live"

====
